---- MODULE Spec2Model ----
(***************************************************************************)
(* Model of src/src/main.rs (bevy-driving-test): the steering update, the  *)
(* dynamics step (tyre loads, grip, forces, integration, low-speed latch), *)
(* the configuration loader, and the per-frame system schedule that drives *)
(* the skid trails.                                                        *)
(*                                                                         *)
(* f32 values are modelled as exact rationals <<n, d>> (d > 0, lowest      *)
(* terms); rounding, infinities and NaN are outside the model.             *)
(***************************************************************************)
EXTENDS Integers, Sequences, FiniteSets, TLC

\* ------------------------------------------------------------------------
\* f32 arithmetic, as exact rationals
\* ------------------------------------------------------------------------
\* Every operation binds its arguments to their values once (x \in {a})
\* and cancels common factors before it multiplies, so that the intermediate
\* integers stay small.
IAbs(i) == IF i < 0 THEN -i ELSE i

RECURSIVE GCD(_, _)
GCD(a, b) == IF b = 0 THEN a ELSE GCD(b, a % b)

\* the rational n / d in lowest terms, d # 0
Rat(n, d) ==
    CHOOSE r \in {LET g == GCD(IAbs(x), IAbs(y))
                  IN  <<(IF y < 0 THEN -x ELSE x) \div g, IAbs(y) \div g>> :
                    x \in {n}, y \in {d}} : TRUE

RZero == <<0, 1>>
ROne == <<1, 1>>

RNeg(a) == CHOOSE r \in {<<-x[1], x[2]>> : x \in {a}} : TRUE

RAdd(a, b) ==
    CHOOSE r \in {LET g == GCD(x[2], y[2])
                  IN  Rat(x[1] * (y[2] \div g) + y[1] * (x[2] \div g),
                          (x[2] \div g) * y[2]) :
                    x \in {a}, y \in {b}} : TRUE

RSub(a, b) == RAdd(a, RNeg(b))

RMul(a, b) ==
    CHOOSE r \in {LET g1 == GCD(IAbs(x[1]), y[2])
                      g2 == GCD(IAbs(y[1]), x[2])
                  IN  <<(x[1] \div g1) * (y[1] \div g2),
                        (x[2] \div g2) * (y[2] \div g1)>> :
                    x \in {a}, y \in {b}} : TRUE

\* division by a non-zero value
RDiv(a, b) ==
    CHOOSE r \in {RMul(x, IF y[1] < 0 THEN <<-y[2], -y[1]>> ELSE <<y[2], y[1]>>) :
                    x \in {a}, y \in {b}} : TRUE

RLt(a, b) ==
    \E x \in {a}, y \in {b} :
        LET g == GCD(x[2], y[2])
        IN  x[1] * (y[2] \div g) < y[1] * (x[2] \div g)

RLe(a, b) ==
    \E x \in {a}, y \in {b} :
        LET g == GCD(x[2], y[2])
        IN  x[1] * (y[2] \div g) <= y[1] * (x[2] \div g)

RAbs(a) == CHOOSE r \in {<<IAbs(x[1]), x[2]>> : x \in {a}} : TRUE

\* f32::min
RMin(a, b) == CHOOSE r \in {IF RLt(y, x) THEN y ELSE x : x \in {a}, y \in {b}} : TRUE

\* f32::signum: 1.0 for +0.0 and positive numbers, -1.0 for negative ones
RSignum(a) == IF a[1] < 0 THEN <<-1, 1>> ELSE <<1, 1>>

\* ------------------------------------------------------------------------
\* CarConfig and its defaults
\* ------------------------------------------------------------------------
\* loaded says that configs.get(handle) finds the asset
DefaultConfig ==
    [loaded |-> TRUE,
     gravity |-> Rat(981, 100),
     mass |-> Rat(1500, 1),
     inertia_scale |-> Rat(1, 1),
     half_width |-> Rat(64, 100),
     centre_of_gravity_to_front_axle |-> Rat(1, 1),
     centre_of_gravity_to_rear_axle |-> Rat(1, 1),
     centre_of_gravity_height |-> Rat(55, 100),
     wheel_radius |-> Rat(1, 2),
     wheel_width |-> Rat(2, 10),
     engine_force |-> Rat(8000, 1),
     brake_force |-> Rat(12000, 1),
     e_brake_force |-> Rat(4800, 1),
     weight_transfer |-> Rat(2, 10),
     max_steer |-> Rat(6, 10),
     corner_stiffness_front |-> Rat(5, 1),
     corner_stiffness_rear |-> Rat(52, 10),
     air_resistance |-> Rat(25, 10),
     roll_resistance |-> Rat(8, 1),
     e_brake_grip_ratio_front |-> Rat(9, 10),
     total_tire_grip_front |-> Rat(25, 10),
     e_brake_grip_ratio_rear |-> Rat(4, 10),
     total_tire_grip_rear |-> Rat(25, 10),
     steer_speed |-> Rat(25, 10),
     speed_steer_correction |-> Rat(60, 1),
     speed_turning_stability |-> Rat(118, 10),
     axle_distance_correction |-> Rat(17, 10)]

VARIABLES
    file,       \* content of config.car as handed to CarConfigLoader::load
    config,     \* the CarConfig asset in Assets<CarConfig>, or NoConfig
    state,      \* CarState of the car
    inputs,     \* keyboard sample and Time delta of the current frame
    stats,      \* CarStats returned by the last physics_step
    panicked,   \* an assert! has failed
    pc,         \* next system of the frame schedule
    pending,    \* Update-stage systems ordered after Physics, not yet run
    frame,      \* number of frames started
    key_c,      \* keyboard_input.just_pressed(KeyCode::C) in this frame
    car_transform,  \* Transform.translation of the car entity
    is_skidding,    \* Tire.is_skidding of each tire
    skid_mesh,      \* CurrentSkid.mesh of each tire (NoHandle for None)
    meshes,         \* Assets<Mesh>: handle id -> ATTRIBUTE_POSITION vertices
    skid_entities,  \* entities with the Skid component, by their mesh handle
    commands,       \* Commands queued in the running stage
    next_handle,    \* ids already handed out by meshes.add
    tire_transform,             \* Transform of each tire
    global_transform,           \* GlobalTransform of each tire
    previous_global_transform   \* PreviousGlobalTransform of each tire

NoConfig == [loaded |-> FALSE]
\* computed says that a physics_step has returned these CarStats
NoStats == [computed |-> FALSE]
\* no config.car has been handed to the loader
NoFile == [utf8_json |-> FALSE]

\* KeyCode sampling: input(code) is 1.0 when pressed and 0.0 otherwise
Pressed(b) == IF b THEN ROne ELSE RZero

ZeroState ==
    [heading |-> RZero,
     position |-> <<RZero, RZero>>,
     velocity |-> <<RZero, RZero>>,
     acceleration |-> <<RZero, RZero>>,
     local_acceleration |-> <<RZero, RZero>>,
     yaw_rate |-> RZero,
     steer |-> RZero,
     steer_angle |-> RZero]

NoInputs ==
    [throttle |-> RZero, brake |-> RZero, e_brake |-> RZero,
     input_steer |-> RZero, delta_seconds |-> RZero]

\* Vec2::length, for the vectors the model produces (one component zero)
Length(v) == IF v[2][1] = 0 THEN RAbs(v[1]) ELSE RAbs(v[2])

\* ------------------------------------------------------------------------
\* Steering update of step
\* ------------------------------------------------------------------------
\* variant: the speed ratio is not limited to 1
TargetSteer_NoMin(cfg, st, input_steer) ==
    RMul(input_steer,
         RSub(ROne, RDiv(Length(st.velocity), cfg.speed_steer_correction)))

TargetSteer(cfg, st, input_steer) ==
    RMul(input_steer,
         RSub(ROne, RMin(RDiv(Length(st.velocity), cfg.speed_steer_correction), ROne)))

MaxSteerOffset(cfg, dt) == RMul(cfg.steer_speed, dt)

\* variant: the steer value jumps to the target
Steer_Snap(cfg, st, input_steer, dt) ==
    [st EXCEPT !.steer = TargetSteer(cfg, st, input_steer),
               !.steer_angle = RMul(cfg.max_steer, TargetSteer(cfg, st, input_steer))]

Steer(cfg, st, input_steer, dt) ==
    LET target_steer == TargetSteer(cfg, st, input_steer)
        max_steer_offset == MaxSteerOffset(cfg, dt)
        steer == IF RLt(RAdd(st.steer, max_steer_offset), target_steer)
                   THEN RAdd(st.steer, max_steer_offset)
                 ELSE IF RLt(target_steer, RSub(st.steer, max_steer_offset))
                   THEN RSub(st.steer, max_steer_offset)
                 ELSE target_steer
    IN  [st EXCEPT !.steer = steer, !.steer_angle = RMul(cfg.max_steer, steer)]

\* ------------------------------------------------------------------------
\* clamp
\* ------------------------------------------------------------------------
\* assert!(min <= max)
ClampAssert(min, max) == RLe(min, max)

\* variant: the upper limit is not applied
Clamp_NoUpper(t, min, max) ==
    IF RLt(t, min) THEN [clamped |-> TRUE, value |-> min]
    ELSE [clamped |-> RLt(max, t), value |-> t]

Clamp(t, min, max) ==
    IF RLt(t, min) THEN [clamped |-> TRUE, value |-> min]
    ELSE IF RLt(max, t) THEN [clamped |-> TRUE, value |-> max]
    ELSE [clamped |-> FALSE, value |-> t]

\* ------------------------------------------------------------------------
\* physics_step: axle geometry, weight transfer, corner loads, grip, friction
\* ------------------------------------------------------------------------
TrackWidth(cfg) == RMul(cfg.half_width, Rat(2, 1))

FrontAxleDistance(cfg) ==
    RMul(cfg.centre_of_gravity_to_front_axle, cfg.axle_distance_correction)

RearAxleDistance(cfg) ==
    RMul(cfg.centre_of_gravity_to_rear_axle, cfg.axle_distance_correction)

WheelBase(cfg) == RAdd(FrontAxleDistance(cfg), RearAxleDistance(cfg))

AxleWeightRatioFront(cfg) == RDiv(RearAxleDistance(cfg), WheelBase(cfg))

AxleWeightRatioRear(cfg) == RDiv(FrontAxleDistance(cfg), WheelBase(cfg))

\* Mat2::from_angle(-heading) * velocity; the heading is 0 in every state of
\* the model, so the rotation is the identity
LocalVelocity(st) == st.velocity

TransferX(cfg, st) ==
    RDiv(RMul(RMul(cfg.weight_transfer, cfg.centre_of_gravity_height),
              st.local_acceleration[1]),
         WheelBase(cfg))

TransferY(cfg, st) ==
    RMul(RDiv(RMul(RMul(cfg.weight_transfer, st.local_acceleration[2]),
                   cfg.centre_of_gravity_height),
              TrackWidth(cfg)),
         Rat(20, 1))

WeightFront(cfg, st) ==
    RMul(cfg.mass,
         RSub(RMul(AxleWeightRatioFront(cfg), cfg.gravity), TransferX(cfg, st)))

WeightRear(cfg, st) ==
    RMul(cfg.mass,
         RAdd(RMul(AxleWeightRatioRear(cfg), cfg.gravity), TransferX(cfg, st)))

\* variant: the lateral transfer is taken off both rear corners
ActiveWeights_RearSign(cfg, st) ==
    [front_left |-> RSub(WeightFront(cfg, st), TransferY(cfg, st)),
     front_right |-> RAdd(WeightFront(cfg, st), TransferY(cfg, st)),
     rear_left |-> RSub(WeightRear(cfg, st), TransferY(cfg, st)),
     rear_right |-> RSub(WeightRear(cfg, st), TransferY(cfg, st))]

ActiveWeights(cfg, st) ==
    CHOOSE w \in {[front_left |-> RSub(weight_front, transfer_y),
                   front_right |-> RAdd(weight_front, transfer_y),
                   rear_left |-> RSub(weight_rear, transfer_y),
                   rear_right |-> RAdd(weight_rear, transfer_y)] :
                    weight_front \in {WeightFront(cfg, st)},
                    weight_rear \in {WeightRear(cfg, st)},
                    transfer_y \in {TransferY(cfg, st)}} : TRUE

YawSpeedFront(cfg, st) == RMul(FrontAxleDistance(cfg), st.yaw_rate)

YawSpeedRear(cfg, st) == RNeg(RMul(RearAxleDistance(cfg), st.yaw_rate))

\* f32::atan2(y, x) for x >= 0 is not computed: r is a possible result when
\* it is 0 for y = 0, has the sign of y otherwise, and lies within +-pi/2
Atan2Admits(y, r) ==
    /\ (y[1] = 0) <=> (r[1] = 0)
    /\ (y[1] > 0) <=> (r[1] > 0)
    /\ RLt(RAbs(r), Rat(158, 100))

\* atan2_front and atan2_rear stand for the two f32::atan2 results, which the
\* model takes as inputs
SlipAngleFront(st, atan2_front) ==
    RSub(atan2_front, RMul(RSignum(LocalVelocity(st)[1]), st.steer_angle))

SlipAngleRear(st, atan2_rear) == atan2_rear

FrontGrip(cfg, inp) ==
    RMul(cfg.total_tire_grip_front,
         RSub(ROne, RMul(inp.e_brake, RSub(ROne, cfg.e_brake_grip_ratio_front))))

RearGrip(cfg, inp) ==
    RMul(cfg.total_tire_grip_rear,
         RSub(ROne, RMul(inp.e_brake, RSub(ROne, cfg.e_brake_grip_ratio_rear))))

\* one clamp call followed by the multiplication with the corner's weight
CornerFriction(stiffness, slip_angle, grip, active_weight) ==
    CHOOSE r \in {[is_skidding |-> c.clamped,
                   friction |-> RMul(c.value, active_weight)] :
                    c \in {Clamp(RNeg(RMul(stiffness, slip_angle)), RNeg(grip), grip)}} :
        TRUE

\* The step up to the friction forces, and the CarStats it reports.  The
\* forces, the integration, the latch and the yaw damping (lines 285-340)
\* need cos, sqrt and a rotation; their result is new_acceleration (the
\* heading is 0, so local and world acceleration agree) and motion
\* (velocity, yaw_rate), chosen by the caller.  panicked is TRUE when an
\* assertion of clamp fails.
PhysicsStep(inp, cfg, st, atan2_front, atan2_rear, new_acceleration, motion) ==
    CHOOSE result \in
      {LET fl == CornerFriction(cfg.corner_stiffness_front, slip_angle_front,
                               front_grip, w.front_left)
           fr == CornerFriction(cfg.corner_stiffness_front, slip_angle_front,
                               front_grip, w.front_right)
           rl == CornerFriction(cfg.corner_stiffness_rear, slip_angle_rear,
                               rear_grip, w.rear_left)
           rr == CornerFriction(cfg.corner_stiffness_rear, slip_angle_rear,
                               rear_grip, w.rear_right)
       IN  IF ~(ClampAssert(RNeg(front_grip), front_grip)
                /\ ClampAssert(RNeg(rear_grip), rear_grip))
           THEN [panicked |-> TRUE, state |-> st, stats |-> NoStats]
           ELSE [panicked |-> FALSE,
                 state |-> [st EXCEPT !.local_acceleration = new_acceleration,
                                      !.acceleration = new_acceleration,
                                      !.velocity = motion.velocity,
                                      !.yaw_rate = motion.yaw_rate],
                 stats |-> [computed |-> TRUE,
                            steering |-> st.steer,
                            steer_angle |-> st.steer_angle,
                            front_left_active_weight |-> w.front_left,
                            front_right_active_weight |-> w.front_right,
                            rear_left_active_weight |-> w.rear_left,
                            rear_right_active_weight |-> w.rear_right,
                            front_left_friction |-> fl.friction,
                            front_right_friction |-> fr.friction,
                            rear_left_friction |-> rl.friction,
                            rear_right_friction |-> rr.friction,
                            front_left_is_skidding |-> fl.is_skidding,
                            front_right_is_skidding |-> fr.is_skidding,
                            rear_left_is_skidding |-> rl.is_skidding,
                            rear_right_is_skidding |-> rr.is_skidding]] :
         w \in {ActiveWeights(cfg, st)},
         front_grip \in {FrontGrip(cfg, inp)},
         rear_grip \in {RearGrip(cfg, inp)},
         slip_angle_front \in {SlipAngleFront(st, atan2_front)},
         slip_angle_rear \in {SlipAngleRear(st, atan2_rear)}} : TRUE

\* ------------------------------------------------------------------------
\* Frame schedule: tires, transforms, skid trails
\* ------------------------------------------------------------------------
\* frames explored by the schedule specification
MaxFrames == 3

\* the tire entities, in spawn order (the order the queries iterate in)
TireOrder == <<"front_left", "front_right", "rear_left", "rear_right">>
Tires == {TireOrder[i] : i \in 1..Len(TireOrder)}

NoHandle == 0

VZero == <<RZero, RZero, RZero>>
VAdd(a, b) == <<RAdd(a[1], b[1]), RAdd(a[2], b[2]), RAdd(a[3], b[3])>>
VSub(a, b) == <<RSub(a[1], b[1]), RSub(a[2], b[2]), RSub(a[3], b[3])>>
VScale(k, a) == <<RMul(k, a[1]), RMul(k, a[2]), RMul(k, a[3])>>

\* Vec3::normalize_or_zero, for the vectors the model produces (at most one
\* non-zero component): the zero vector, or the unit vector of that axis
NormalizeOrZero(v) ==
    LET sgn(a) == IF a[1] > 0 THEN ROne ELSE IF a[1] < 0 THEN RNeg(ROne) ELSE RZero
    IN  <<sgn(v[1]), sgn(v[2]), sgn(v[3])>>

\* Transform::default / GlobalTransform::default
IdentityTransform == [translation |-> VZero, scale_y |-> ROne]

\* translation and scale that place_tires gives a tire
PlacedTire(cfg, t) ==
    [translation |->
        <<IF t \in {"front_left", "front_right"}
            THEN cfg.centre_of_gravity_to_front_axle
            ELSE RNeg(cfg.centre_of_gravity_to_rear_axle),
          IF t \in {"front_left", "rear_left"}
            THEN cfg.half_width
            ELSE RNeg(cfg.half_width),
          ROne>>,
     scale_y |-> cfg.wheel_width]

\* transform propagation from the car (rotation 0, scale 1) to a tire
Propagated(parent_translation, local) ==
    [translation |-> VAdd(parent_translation, local.translation),
     scale_y |-> local.scale_y]

\* p1 and p2 of skid for one tire
SkidVertices(t) ==
    LET previous_position == previous_global_transform[t].translation
        current_position == global_transform[t].translation
        offset == VSub(current_position, previous_position)
        sideways == VScale(RMul(Rat(1, 2), global_transform[t].scale_y),
                           NormalizeOrZero(<<RNeg(offset[2]), offset[1], RZero>>))
    IN  <<VSub(current_position, sideways), VAdd(current_position, sideways)>>

\* variant: every mesh is stored under the same handle id
NewHandle_Fixed(s) == NoHandle + 1

\* meshes.add: HandleId::random, a handle id that was never used before
NewHandle(s) == s.next_handle + 1

\* variant: a tire that stops slipping keeps its trail open
SkidTire_NoSeal(s, t, skidding) ==
    LET handle == s.skid_mesh[t]
        found == handle # NoHandle /\ handle \in DOMAIN s.meshes
    IN  IF skidding /\ ~found THEN
            [meshes |-> [h \in DOMAIN s.meshes \cup {NewHandle(s)} |->
                            IF h = NewHandle(s) THEN SkidVertices(t) ELSE s.meshes[h]],
             skid_mesh |-> [s.skid_mesh EXCEPT ![t] = NewHandle(s)],
             commands |-> s.commands \cup {<<"spawn", NewHandle(s)>>},
             next_handle |-> NewHandle(s)]
        ELSE IF skidding /\ found THEN
            [s EXCEPT !.meshes[handle] = @ \o SkidVertices(t)]
        ELSE s

\* variant: a slipping tire with an open trail rewrites the trail's last pair
SkidTire_Rewrite(s, t, skidding) ==
    LET handle == s.skid_mesh[t]
        found == handle # NoHandle /\ handle \in DOMAIN s.meshes
    IN  IF skidding /\ ~found THEN
            [meshes |-> [h \in DOMAIN s.meshes \cup {NewHandle(s)} |->
                            IF h = NewHandle(s) THEN SkidVertices(t) ELSE s.meshes[h]],
             skid_mesh |-> [s.skid_mesh EXCEPT ![t] = NewHandle(s)],
             commands |-> s.commands \cup {<<"spawn", NewHandle(s)>>},
             next_handle |-> NewHandle(s)]
        ELSE IF skidding /\ found THEN
            [s EXCEPT !.meshes[handle] =
                        SubSeq(@, 1, Len(@) - 2) \o SkidVertices(t)]
        ELSE IF ~skidding /\ ~found THEN
            s
        ELSE
            [s EXCEPT !.skid_mesh[t] = NoHandle]

\* body of the loop of skid for tire t whose Tire.is_skidding is skidding; s
\* holds the resources the loop updates
SkidTire(s, t, skidding) ==
    LET handle == s.skid_mesh[t]
        found == handle # NoHandle /\ handle \in DOMAIN s.meshes
    IN  IF skidding /\ ~found THEN
            LET new == NewHandle(s)
            IN  [meshes |-> [h \in DOMAIN s.meshes \cup {new} |->
                                IF h = new THEN SkidVertices(t) ELSE s.meshes[h]],
                 skid_mesh |-> [s.skid_mesh EXCEPT ![t] = new],
                 commands |-> s.commands \cup {<<"spawn", new>>},
                 next_handle |-> new]
        ELSE IF skidding /\ found THEN
            [s EXCEPT !.meshes[handle] = @ \o SkidVertices(t)]
        ELSE IF ~skidding /\ ~found THEN
            s
        ELSE
            [s EXCEPT !.skid_mesh[t] = NoHandle]

RECURSIVE SkidLoop(_, _)
SkidLoop(s, i) ==
    IF i > Len(TireOrder) THEN s
    ELSE SkidLoop(SkidTire(s, TireOrder[i], is_skidding[TireOrder[i]]), i + 1)

\* variant: only the trails that no tire holds a handle to are removed
CleanupMeshes_SealedOnly(just_pressed) ==
    IF just_pressed
    THEN [h \in (DOMAIN meshes \ skid_entities)
                \cup ({skid_mesh[t] : t \in Tires} \cap DOMAIN meshes) |-> meshes[h]]
    ELSE meshes

\* variant: the trails are emptied, not removed
CleanupMeshes_Emptied(just_pressed) ==
    IF just_pressed
    THEN [h \in DOMAIN meshes |-> IF h \in skid_entities THEN <<>> ELSE meshes[h]]
    ELSE meshes

\* cleanup_skids: the meshes left after meshes.remove for every Skid entity
CleanupMeshes(just_pressed) ==
    IF just_pressed
    THEN [h \in DOMAIN meshes \ skid_entities |-> meshes[h]]
    ELSE meshes

\* cleanup_skids: the despawn commands it queues
CleanupCommands(just_pressed) ==
    IF just_pressed
    THEN {<<"despawn", h>> : h \in skid_entities}
    ELSE {}

\* the Skid entities once the stage's queued commands are applied
ApplyCommands(entities, cmds) ==
    (entities \cup {c[2] : c \in {d \in cmds : d[1] = "spawn"}})
        \ {c[2] : c \in {d \in cmds : d[1] = "despawn"}}

carVars == <<file, config, state, inputs, stats, panicked>>
frameVars == <<pc, pending, frame, key_c>>
skidVars == <<is_skidding, skid_mesh, meshes, skid_entities, commands, next_handle>>
transformVars ==
    <<car_transform, tire_transform, global_transform, previous_global_transform>>
vars == <<carVars, frameVars, skidVars, transformVars>>

\* the world right after setup: tires with default transforms, no skid
SetupWorld ==
    /\ car_transform = VZero
    /\ is_skidding = [t \in Tires |-> FALSE]
    /\ skid_mesh = [t \in Tires |-> NoHandle]
    /\ meshes = <<>>
    /\ skid_entities = {}
    /\ commands = {}
    /\ next_handle = 0
    /\ tire_transform = [t \in Tires |-> IdentityTransform]
    /\ global_transform = [t \in Tires |-> IdentityTransform]
    /\ previous_global_transform = [t \in Tires |-> IdentityTransform]

NoSchedule ==
    /\ pc = "none"
    /\ pending = {}
    /\ frame = 0
    /\ key_c = FALSE

\* ------------------------------------------------------------------------
\* Specification of the steering update
\* ------------------------------------------------------------------------
SteerConfigs ==
    {DefaultConfig,
     [DefaultConfig EXCEPT !.steer_speed = Rat(30, 1),
                           !.speed_steer_correction = Rat(40, 1)]}

DeltaSeconds == {RZero, Rat(1, 60), Rat(1, 30)}
Speeds == {RZero, Rat(20, 1), Rat(40, 1), Rat(80, 1)}

InitSteer ==
    /\ file = NoFile
    /\ config \in SteerConfigs
    /\ state = ZeroState
    /\ inputs = NoInputs
    /\ stats = NoStats
    /\ panicked = FALSE
    /\ NoSchedule
    /\ SetupWorld

\* step, lines 631-647: the steering update, followed by a dynamics step of
\* which only the new velocity (along the heading) is kept
StepSteering ==
    \E left, right \in BOOLEAN, dt \in DeltaSeconds, v \in Speeds :
        LET input_steer == RSub(Pressed(left), Pressed(right))
        IN  /\ inputs' = [NoInputs EXCEPT !.input_steer = input_steer,
                                          !.delta_seconds = dt]
            /\ state' = [Steer(config, state, input_steer, dt)
                            EXCEPT !.velocity = <<v, RZero>>]
            /\ UNCHANGED <<file, config, stats, panicked>>
            /\ UNCHANGED <<frameVars, skidVars, transformVars>>

NextSteer == StepSteering

SpecSteer == InitSteer /\ [][NextSteer]_vars

\* C9: on every tick the smoothed steer value changes by at most
\* steer_speed * dt, whatever the raw steer command, the speed and dt are.
C9_SteeringRateBound ==
    [][RLe(RAbs(RSub(state'.steer, state.steer)),
           RMul(config.steer_speed, inputs'.delta_seconds))]_vars

\* a tick that was rate limited: full left from rest, default configuration,
\* dt = 1/60, moves steer by exactly steer_speed * dt = 1/24
C9_Witness ==
    /\ inputs.input_steer = ROne
    /\ inputs.delta_seconds = Rat(1, 60)
    /\ state.steer = Rat(1, 24)

\* C10: starting from steer = 0 the smoothed steer value stays in [-1, 1];
\* the target of every tick never has the opposite sign of the raw command,
\* equals the raw command at speed 0 and is 0 at any speed at or above
\* speed_steer_correction.
C10_SteerRangeAndTarget ==
    [][LET raw == inputs'.input_steer
           speed == Length(state.velocity)
           target == TargetSteer(config, state, raw)
       IN  /\ RLe(RNeg(ROne), state'.steer)
           /\ RLe(state'.steer, ROne)
           /\ RLe(RZero, RMul(raw, target))
           /\ (speed = RZero => target = raw)
           /\ (RLe(config.speed_steer_correction, speed) => target = RZero)]_vars

\* the steer value has reached the end of its range while the car is faster
\* than speed_steer_correction
C10_Witness ==
    /\ state.steer = RNeg(ROne)
    /\ RLt(config.speed_steer_correction, Length(state.velocity))
    /\ inputs.input_steer = RNeg(ROne)

\* ------------------------------------------------------------------------
\* Specification of the dynamics step (loads, grip, friction)
\* ------------------------------------------------------------------------
PhysicsConfigs ==
    {DefaultConfig,
     [DefaultConfig EXCEPT !.mass = Rat(2, 1),
                           !.centre_of_gravity_to_rear_axle = Rat(3, 2),
                           !.weight_transfer = Rat(1, 2)]}

\* results of the two atan2 calls (front, rear) to choose from
Atan2Results ==
    {<<RZero, RZero>>,
     <<Rat(1, 2), Rat(-1, 2)>>, <<Rat(1, 5), Rat(-1, 2)>>, <<ROne, RNeg(ROne)>>,
     <<Rat(-1, 2), Rat(1, 2)>>, <<Rat(-1, 5), Rat(1, 2)>>, <<RNeg(ROne), ROne>>}

\* local acceleration a step may end with
Accelerations == {<<RZero, RZero>>, <<Rat(10, 1), Rat(5, 1)>>, <<Rat(-10, 1), Rat(-5, 1)>>}

\* velocity and yaw rate a step may end with (the yaw rate is forced to zero
\* below 0.2 km/h)
Motions ==
    {[velocity |-> <<RZero, RZero>>, yaw_rate |-> RZero],
     [velocity |-> <<Rat(20, 1), RZero>>, yaw_rate |-> RZero],
     [velocity |-> <<Rat(20, 1), RZero>>, yaw_rate |-> ROne],
     [velocity |-> <<Rat(-20, 1), RZero>>, yaw_rate |-> RNeg(ROne)]}

InitPhysics ==
    /\ file = NoFile
    /\ config \in PhysicsConfigs
    /\ \E steer \in {RZero, RNeg(ROne)} :
          state = [ZeroState EXCEPT !.steer = steer,
                                    !.steer_angle = RMul(config.max_steer, steer)]
    /\ inputs = NoInputs
    /\ stats = NoStats
    /\ panicked = FALSE
    /\ NoSchedule
    /\ SetupWorld

\* step, line 647: the call of physics_step
StepPhysics ==
    /\ ~panicked
    /\ \E e_brake \in BOOLEAN, atan2 \in Atan2Results,
          acc \in Accelerations, motion \in Motions :
        /\ Atan2Admits(RAdd(LocalVelocity(state)[2], YawSpeedFront(config, state)),
                       atan2[1])
        /\ Atan2Admits(RAdd(LocalVelocity(state)[2], YawSpeedRear(config, state)),
                       atan2[2])
        /\ \E r \in {PhysicsStep([NoInputs EXCEPT !.e_brake = Pressed(e_brake)],
                                  config, state, atan2[1], atan2[2], acc, motion)} :
            /\ inputs' = [NoInputs EXCEPT !.e_brake = Pressed(e_brake)]
            /\ panicked' = r.panicked
            /\ state' = r.state
            /\ stats' = IF r.panicked THEN stats ELSE r.stats
    /\ UNCHANGED <<file, config>>
    /\ UNCHANGED <<frameVars, skidVars, transformVars>>

NextPhysics == StepPhysics

SpecPhysics == InitPhysics /\ [][NextPhysics]_vars

CornerLoadSum(s) ==
    RAdd(RAdd(s.front_left_active_weight, s.front_right_active_weight),
         RAdd(s.rear_left_active_weight, s.rear_right_active_weight))

\* C7 as stated: on every tick the four reported corner loads sum to the
\* front axle load plus the rear axle load.
C7_Original ==
    [][stats'.computed =>
          CornerLoadSum(stats')
              = RAdd(WeightFront(config, state), WeightRear(config, state))]_vars

\* C7 amended: the four reported corner loads sum to twice the front axle
\* load plus the rear axle load (every corner carries its whole axle load,
\* plus or minus the lateral transfer, which cancels).
C7_CornerLoadSum ==
    [][stats'.computed =>
          CornerLoadSum(stats')
              = RMul(Rat(2, 1),
                     RAdd(WeightFront(config, state), WeightRear(config, state)))]_vars

\* a tick with lateral weight transfer: left and right loads differ
C7_Witness ==
    /\ stats.computed
    /\ stats.front_left_active_weight # stats.front_right_active_weight
    /\ stats.rear_left_active_weight # stats.rear_right_active_weight

Corners ==
    {[friction |-> stats.front_left_friction,
      weight |-> stats.front_left_active_weight,
      is_skidding |-> stats.front_left_is_skidding,
      grip |-> FrontGrip(config, inputs)],
     [friction |-> stats.front_right_friction,
      weight |-> stats.front_right_active_weight,
      is_skidding |-> stats.front_right_is_skidding,
      grip |-> FrontGrip(config, inputs)],
     [friction |-> stats.rear_left_friction,
      weight |-> stats.rear_left_active_weight,
      is_skidding |-> stats.rear_left_is_skidding,
      grip |-> RearGrip(config, inputs)],
     [friction |-> stats.rear_right_friction,
      weight |-> stats.rear_right_active_weight,
      is_skidding |-> stats.rear_right_is_skidding,
      grip |-> RearGrip(config, inputs)]}

\* C8 as stated: for each corner |lateral force| <= grip ceiling * corner
\* load, and the slip flag is true exactly when equality holds.
C8_Original ==
    stats.computed =>
        \A c \in Corners :
            /\ RLe(RAbs(c.friction), RMul(c.grip, c.weight))
            /\ c.is_skidding <=> (RAbs(c.friction) = RMul(c.grip, c.weight))

\* C8 amended: for each corner |lateral force| <= grip ceiling * |corner
\* load|, and whenever the slip flag is true equality holds.
C8_GripCeiling ==
    stats.computed =>
        \A c \in Corners :
            /\ RLe(RAbs(c.friction), RMul(c.grip, RAbs(c.weight)))
            /\ c.is_skidding => (RAbs(c.friction) = RMul(c.grip, RAbs(c.weight)))

\* a tick with the handbrake on in which the rear corners are at their grip
\* ceiling and the front corners are not
C8_Witness ==
    /\ stats.computed
    /\ inputs.e_brake = ROne
    /\ stats.rear_left_is_skidding
    /\ stats.rear_right_is_skidding
    /\ ~stats.front_left_is_skidding

\* ------------------------------------------------------------------------
\* Specification of the frame schedule (main): Update stage, PostUpdate stage
\* ------------------------------------------------------------------------
\* distance the car may cover along its heading in one frame
Displacements == {RZero, ROne}

\* The world at the end of a frame in which the configuration asset was
\* available and the car stood still: tires placed and propagated, no skid.
InitFrames ==
    /\ file = NoFile
    /\ config = DefaultConfig
    /\ state = ZeroState
    /\ inputs = NoInputs
    /\ stats = NoStats
    /\ panicked = FALSE
    /\ pc = "Physics"
    /\ pending = {}
    /\ frame = 0
    /\ key_c = FALSE
    /\ car_transform = <<RZero, RZero, ROne>>
    /\ is_skidding = [t \in Tires |-> FALSE]
    /\ skid_mesh = [t \in Tires |-> NoHandle]
    /\ meshes = <<>>
    /\ skid_entities = {}
    /\ commands = {}
    /\ next_handle = 0
    /\ tire_transform = [t \in Tires |-> PlacedTire(config, t)]
    /\ global_transform =
          [t \in Tires |-> Propagated(<<RZero, RZero, ROne>>, PlacedTire(config, t))]
    /\ previous_global_transform =
          [t \in Tires |-> Propagated(<<RZero, RZero, ROne>>, PlacedTire(config, t))]

\* step, labelled Physics, as the rest of the frame sees it: the keyboard
\* state of the frame, the new position (a displacement along the heading),
\* the car's Transform and the slip flags stored in the tires.  Both clamp
\* calls of an axle get the same arguments, so the two tires of an axle get
\* the same flag.  The R key is not pressed.
StepSystem ==
    /\ pc = "Physics"
    /\ frame < MaxFrames
    /\ \E c, front, rear \in BOOLEAN, dx \in Displacements :
        /\ key_c' = c
        /\ state' = [state EXCEPT !.position = <<RAdd(@[1], dx), @[2]>>]
        /\ car_transform' = <<state'.position[1], state'.position[2], ROne>>
        /\ is_skidding' = [t \in Tires |->
                              IF t \in {"front_left", "front_right"} THEN front ELSE rear]
    /\ frame' = frame + 1
    /\ pc' = "AfterPhysics"
    /\ pending' = {"place_tires", "cleanup_skids"}
    /\ UNCHANGED <<file, config, inputs, stats, panicked>>
    /\ UNCHANGED <<skid_mesh, meshes, skid_entities, commands, next_handle>>
    /\ UNCHANGED <<tire_transform, global_transform, previous_global_transform>>

\* place_tires, ordered after Physics
PlaceTires ==
    /\ pc = "AfterPhysics"
    /\ "place_tires" \in pending
    /\ pending' = pending \ {"place_tires"}
    /\ tire_transform' = [t \in Tires |-> PlacedTire(config, t)]
    /\ UNCHANGED <<pc, frame, key_c, carVars, skidVars>>
    /\ UNCHANGED <<car_transform, global_transform, previous_global_transform>>

\* cleanup_skids, ordered after Physics
CleanupSkids ==
    /\ pc = "AfterPhysics"
    /\ "cleanup_skids" \in pending
    /\ pending' = pending \ {"cleanup_skids"}
    /\ meshes' = CleanupMeshes(key_c)
    /\ commands' = commands \cup CleanupCommands(key_c)
    /\ UNCHANGED <<pc, frame, key_c, carVars, transformVars>>
    /\ UNCHANGED <<is_skidding, skid_mesh, skid_entities, next_handle>>

\* variant: the Update stage ends without waiting for its systems
ApplyUpdateCommands_Early ==
    /\ pc = "AfterPhysics"
    /\ skid_entities' = ApplyCommands(skid_entities, commands)
    /\ commands' = {}
    /\ pc' = "TransformPropagate"
    /\ UNCHANGED <<pending, frame, key_c, carVars, transformVars>>
    /\ UNCHANGED <<is_skidding, skid_mesh, meshes, next_handle>>

\* end of the Update stage: the queued commands are applied
ApplyUpdateCommands ==
    /\ pc = "AfterPhysics"
    /\ pending = {}
    /\ skid_entities' = ApplyCommands(skid_entities, commands)
    /\ commands' = {}
    /\ pc' = "TransformPropagate"
    /\ UNCHANGED <<pending, frame, key_c, carVars, transformVars>>
    /\ UNCHANGED <<is_skidding, skid_mesh, meshes, next_handle>>

\* variant: propagation also stores the new transforms as the previous ones
TransformPropagate_StoresPrevious ==
    /\ pc = "TransformPropagate"
    /\ global_transform' = [t \in Tires |-> Propagated(car_transform, tire_transform[t])]
    /\ previous_global_transform' = global_transform'
    /\ pc' = "Skid"
    /\ UNCHANGED <<pending, frame, key_c, carVars, skidVars>>
    /\ UNCHANGED <<car_transform, tire_transform>>

\* TransformSystem::TransformPropagate in PostUpdate
TransformPropagate ==
    /\ pc = "TransformPropagate"
    /\ global_transform' = [t \in Tires |-> Propagated(car_transform, tire_transform[t])]
    /\ pc' = "Skid"
    /\ UNCHANGED <<pending, frame, key_c, carVars, skidVars>>
    /\ UNCHANGED <<car_transform, tire_transform, previous_global_transform>>

\* skid, after TransformPropagate and before UpdatePreviousGlobalTransform
Skid ==
    /\ pc = "Skid"
    /\ \E s \in {SkidLoop([meshes |-> meshes, skid_mesh |-> skid_mesh,
                           commands |-> commands, next_handle |-> next_handle], 1)} :
        /\ meshes' = s.meshes
        /\ skid_mesh' = s.skid_mesh
        /\ commands' = s.commands
        /\ next_handle' = s.next_handle
    /\ pc' = "UpdatePreviousGlobalTransform"
    /\ UNCHANGED <<pending, frame, key_c, carVars, transformVars>>
    /\ UNCHANGED <<is_skidding, skid_entities>>

\* update_previous_global_transform
UpdatePreviousGlobalTransform ==
    /\ pc = "UpdatePreviousGlobalTransform"
    /\ previous_global_transform' = global_transform
    /\ pc' = "PostUpdateEnd"
    /\ UNCHANGED <<pending, frame, key_c, carVars, skidVars>>
    /\ UNCHANGED <<car_transform, tire_transform, global_transform>>

\* end of the PostUpdate stage: the queued commands are applied
ApplyPostUpdateCommands ==
    /\ pc = "PostUpdateEnd"
    /\ skid_entities' = ApplyCommands(skid_entities, commands)
    /\ commands' = {}
    /\ pc' = "Physics"
    /\ UNCHANGED <<pending, frame, key_c, carVars, transformVars>>
    /\ UNCHANGED <<is_skidding, skid_mesh, meshes, next_handle>>

NextFrames ==
    \/ StepSystem
    \/ PlaceTires
    \/ CleanupSkids
    \/ ApplyUpdateCommands
    \/ TransformPropagate
    \/ Skid
    \/ UpdatePreviousGlobalTransform
    \/ ApplyPostUpdateCommands

SpecFrames == InitFrames /\ [][NextFrames]_vars

\* ------------------------------------------------------------------------
\* Skid trails
\* ------------------------------------------------------------------------
\* the tire has an open trail: its handle finds a mesh
Open(t) == skid_mesh[t] # NoHandle /\ skid_mesh[t] \in DOMAIN meshes

\* the trail exists and no tire holds its handle
Sealed(h) == h \in DOMAIN meshes /\ \A t \in Tires : skid_mesh[t] # h

\* the step is the run of cleanup_skids in a frame in which C was pressed
ClearStep ==
    /\ pc = "AfterPhysics"
    /\ "cleanup_skids" \in pending
    /\ "cleanup_skids" \notin pending'
    /\ key_c

\* C1: for every wheel and every tick the skid update follows the table on
\* (is_slipping, open trail): (true, none) starts a new trail seeded with
\* exactly this tick's 2 vertices; (true, open) extends the open trail by
\* them; (false, open) seals it, so that the wheel has no open trail
\* afterwards; (false, none) changes nothing.  Trails that are open for no
\* wheel are left alone and every starting wheel gets a trail of its own.
C1_SkidTable ==
    [][pc = "Skid" =>
        /\ \A t \in Tires :
            LET h == skid_mesh[t]
                h2 == skid_mesh'[t]
            IN  /\ (is_skidding[t] /\ ~Open(t)) =>
                        /\ h2 # NoHandle
                        /\ h2 \notin DOMAIN meshes
                        /\ h2 \in DOMAIN meshes'
                        /\ meshes'[h2] = SkidVertices(t)
                        /\ Len(meshes'[h2]) = 2
                /\ (is_skidding[t] /\ Open(t)) =>
                        /\ h2 = h
                        /\ h \in DOMAIN meshes'
                        /\ meshes'[h] = meshes[h] \o SkidVertices(t)
                /\ (~is_skidding[t] /\ Open(t)) =>
                        /\ h2 = NoHandle
                        /\ \A u \in Tires : skid_mesh'[u] # h
                        /\ h \in DOMAIN meshes'
                        /\ meshes'[h] = meshes[h]
                /\ (~is_skidding[t] /\ ~Open(t)) => h2 = h
        /\ \A h \in DOMAIN meshes :
            (\A t \in Tires : skid_mesh[t] # h) =>
                (h \in DOMAIN meshes' /\ meshes'[h] = meshes[h])
        /\ DOMAIN meshes' =
              DOMAIN meshes \cup {skid_mesh'[t] : t \in {u \in Tires : is_skidding[u] /\ ~Open(u)}}
        /\ Cardinality(DOMAIN meshes' \ DOMAIN meshes)
              = Cardinality({u \in Tires : is_skidding[u] /\ ~Open(u)})]_vars

\* after one skid update the front tires have sealed a trail of at least two
\* ticks and the rear tires have started one
C1_Witness ==
    /\ pc = "UpdatePreviousGlobalTransform"
    /\ ~is_skidding["front_left"]
    /\ skid_mesh["front_left"] = NoHandle
    /\ \E h \in DOMAIN meshes : Sealed(h) /\ Len(meshes[h]) >= 4
    /\ is_skidding["rear_left"]
    /\ Open("rear_left")
    /\ Len(meshes[skid_mesh["rear_left"]]) = 2

Appendable(t) ==
    UNION {{h \in DOMAIN meshes : after.meshes[h] # meshes[h]} :
            after \in {SkidTire([meshes |-> meshes, skid_mesh |-> skid_mesh,
                                 commands |-> commands, next_handle |-> next_handle],
                                t, TRUE)}}

\* C4: in every reachable state each wheel has at most one open trail: of
\* all existing trails at most one can still be appended to by the wheel's
\* skid update, and no trail can be appended to by two wheels.
C4_OneOpenTrail ==
    \E open \in {[t \in Tires |-> Appendable(t)]} :
        /\ \A t \in Tires : Cardinality(open[t]) <= 1
        /\ \A t, u \in Tires : t # u => open[t] \cap open[u] = {}

\* a front wheel with one open trail next to a sealed trail of its own
C4_Witness ==
    /\ Cardinality(Appendable("front_left")) = 1
    /\ Cardinality(DOMAIN meshes) = 4
    /\ Appendable("rear_left") = {}

\* C5: once a trail is sealed its vertex sequence never changes again and it
\* stays sealed; it can only disappear, and only in the run of cleanup_skids
\* in a frame in which C was pressed.
C5_SealedImmutable ==
    [][\A h \in DOMAIN meshes :
        Sealed(h) =>
            IF h \in DOMAIN meshes'
            THEN /\ meshes'[h] = meshes[h]
                 /\ \A t \in Tires : skid_mesh'[t] # h
            ELSE ClearStep]_vars

\* a skid update has run with a slipping wheel while a sealed trail existed
C5_Witness ==
    /\ pc = "UpdatePreviousGlobalTransform"
    /\ \E h \in DOMAIN meshes : Sealed(h)
    /\ \E t \in Tires : is_skidding[t] /\ Open(t) /\ Len(meshes[skid_mesh[t]]) >= 4

\* ------------------------------------------------------------------------
\* Specification of the configuration loader
\* ------------------------------------------------------------------------
\* contents of config.car: bytes that are not the JSON of a CarConfig, or JSON
\* that sets some fields (serde(default) fills in the others)
Files ==
    {[utf8_json |-> FALSE]} \cup
    {[utf8_json |-> TRUE, mass |-> m, inertia_scale |-> i, wheel_radius |-> r,
      centre_of_gravity_to_front_axle |-> f, centre_of_gravity_to_rear_axle |-> b] :
        m \in {Rat(-1, 1), RZero, Rat(1500, 1)},
        i \in {RZero, ROne},
        r \in {RZero, Rat(1, 2)},
        f \in {RZero, ROne},
        b \in {Rat(-1, 1), RZero, ROne}}

\* serde_json::from_str::<CarConfig> of accepted bytes
ParseConfig(bytes) ==
    [DefaultConfig EXCEPT
        !.mass = bytes.mass,
        !.inertia_scale = bytes.inertia_scale,
        !.wheel_radius = bytes.wheel_radius,
        !.centre_of_gravity_to_front_axle = bytes.centre_of_gravity_to_front_axle,
        !.centre_of_gravity_to_rear_axle = bytes.centre_of_gravity_to_rear_axle]

\* CarStats of a step that divided by a zero wheel base (inf and NaN)
NonFiniteStats == [computed |-> TRUE, finite |-> FALSE]

InitLoader ==
    /\ file \in Files
    /\ config = NoConfig
    /\ state = ZeroState
    /\ inputs = NoInputs
    /\ stats = NoStats
    /\ panicked = FALSE
    /\ NoSchedule
    /\ SetupWorld

\* CarConfigLoader::load returning Ok (an Err leaves every resource as it is)
LoadConfig ==
    /\ ~config.loaded
    /\ file.utf8_json
    /\ config' = ParseConfig(file)
    /\ UNCHANGED <<file, state, inputs, stats, panicked>>
    /\ UNCHANGED <<frameVars, skidVars, transformVars>>

\* step of a frame with no key pressed and the car at rest, once configs.get
\* finds the asset (before that the loop body is skipped)
StepLoaded ==
    /\ config.loaded
    /\ ~panicked
    /\ \E dt \in DeltaSeconds \ {RZero} :
        /\ inputs' = [NoInputs EXCEPT !.delta_seconds = dt]
        /\ IF WheelBase(config) = RZero
           THEN /\ stats' = NonFiniteStats
                /\ UNCHANGED <<state, panicked>>
           ELSE \E r \in {PhysicsStep(NoInputs, config, Steer(config, state, RZero, dt),
                                      RZero, RZero, <<RZero, RZero>>,
                                      [velocity |-> <<RZero, RZero>>,
                                       yaw_rate |-> RZero])} :
                    /\ panicked' = r.panicked
                    /\ state' = r.state
                    /\ stats' = IF r.panicked THEN stats ELSE r.stats
    /\ UNCHANGED <<file, config>>
    /\ UNCHANGED <<frameVars, skidVars, transformVars>>

NextLoader == LoadConfig \/ StepLoaded

SpecLoader == InitLoader /\ [][NextLoader]_vars

\* the positivity invariants of the configuration
ValidConfig(cfg) ==
    /\ RLt(RZero, cfg.mass)
    /\ RLt(RZero, cfg.inertia_scale)
    /\ RLt(RZero, cfg.wheel_radius)
    /\ RLt(RZero, RAdd(cfg.centre_of_gravity_to_front_axle,
                       cfg.centre_of_gravity_to_rear_axle))
    /\ RLt(RZero, WheelBase(cfg))

\* C6: a configuration with non-positive mass, inertia scale, wheel radius or
\* axle-distance sum is rejected when it is loaded, so that it never becomes
\* the asset and the dynamics step never runs with it.
C6_InvalidConfigurationRejected ==
    /\ config.loaded => ValidConfig(config)
    /\ stats.computed => ValidConfig(config)

\* ------------------------------------------------------------------------
\* physics_step: forces, integration, low-speed latch, yaw
\* ------------------------------------------------------------------------
\* f32::EPSILON
Epsilon == Rat(1, 8388608)

V2Zero == <<RZero, RZero>>
V2Add(a, b) == <<RAdd(a[1], b[1]), RAdd(a[2], b[2])>>
V2Scale(k, a) == <<RMul(k, a[1]), RMul(k, a[2])>>

\* Vec2::length() < limit, for limit >= 0: decided on the components where
\* they settle it (max(|x|, |y|) <= length <= |x| + |y|), else on the squares
LengthBelow(v, limit) ==
    \E x \in {RAbs(v[1])}, y \in {RAbs(v[2])} :
        IF RLe(limit, x) \/ RLe(limit, y) THEN FALSE
        ELSE IF RLt(RAdd(x, y), limit) THEN TRUE
        ELSE RLt(RAdd(RMul(x, x), RMul(y, y)), RMul(limit, limit))

\* f32::cos(angle) for |angle| < pi/2 is not computed: c is a possible result
\* when it is 1 for angle = 0 and lies in (0, 1]
CosAdmits(angle, c) ==
    /\ (angle = RZero) => (c = ROne)
    /\ RLt(RZero, c)
    /\ RLe(c, ROne)

Inertia(cfg) == RMul(cfg.mass, cfg.inertia_scale)

Brake(inp, cfg) ==
    RMin(RAdd(RMul(inp.brake, cfg.brake_force), RMul(inp.e_brake, cfg.e_brake_force)),
         cfg.brake_force)

\* variant: the engine pulls whether or not the throttle is pressed
Throttle_Idle(inp, cfg) == cfg.engine_force

Throttle(inp, cfg) == RMul(inp.throttle, cfg.engine_force)

RearTorque(inp, cfg) == RDiv(Throttle(inp, cfg), cfg.wheel_radius)

\* s is the CarStats record, which holds the four corner frictions
FrontFriction(s) ==
    RMul(Rat(1, 2), RAdd(s.front_left_friction, s.front_right_friction))

RearFriction(s) ==
    RMul(Rat(1, 2), RAdd(s.rear_left_friction, s.rear_right_friction))

TractionForceX(inp, cfg, st) ==
    RSub(RearTorque(inp, cfg),
         RMul(Brake(inp, cfg), RSignum(LocalVelocity(st)[1])))

\* -roll_resistance * v - air_resistance * v * |v|, component by component
DragForce(cfg, st) ==
    CHOOSE d \in {<<RSub(RNeg(RMul(cfg.roll_resistance, v[1])),
                         RMul(cfg.air_resistance, RMul(v[1], RAbs(v[1])))),
                    RSub(RNeg(RMul(cfg.roll_resistance, v[2])),
                         RMul(cfg.air_resistance, RMul(v[2], RAbs(v[2]))))>> :
                    v \in {LocalVelocity(st)}} : TRUE

TotalForceX(inp, cfg, st) == RAdd(TractionForceX(inp, cfg, st), DragForce(cfg, st)[1])

\* traction_force_y is 0.0; cos_steer stands for state.steer_angle.cos()
TotalForceY(cfg, st, s, cos_steer) ==
    CHOOSE f \in {IF RLt(Rat(10, 1), speed)
                  THEN RMul(y, RDiv(RAdd(speed, ROne),
                                    RSub(Rat(21, 1), cfg.speed_turning_stability)))
                  ELSE y :
                    y \in {RAdd(RAdd(DragForce(cfg, st)[2],
                                     RMul(cos_steer, FrontFriction(s))),
                                RearFriction(s))},
                    speed \in {Length(st.velocity)}} : TRUE

AngularTorque(cfg, s) ==
    RSub(RMul(FrontFriction(s), FrontAxleDistance(cfg)),
         RMul(RearFriction(s), RearAxleDistance(cfg)))

\* variant: the latch only takes speeds below 0.25
LowSpeedLatch_Quarter(inp, cfg, velocity) ==
    LengthBelow(velocity, Rat(1, 4)) /\ RLt(Throttle(inp, cfg), Epsilon)

\* the condition of the low-speed latch, on the integrated velocity
LowSpeedLatch(inp, cfg, velocity) ==
    LengthBelow(velocity, Rat(1, 2)) /\ RLt(Throttle(inp, cfg), Epsilon)

\* the condition under which the yaw rate is forced to zero
YawDamped(st, velocity, local_acceleration) ==
    \/ /\ \/ LengthBelow(velocity, ROne)
          \/ RLt(RAbs(local_acceleration[2]), Rat(25, 10))
       /\ RLt(RAbs(st.steer_angle), Epsilon)
    \/ LengthBelow(V2Scale(Rat(36, 10), velocity), Rat(2, 10))

\* Lines 285-340 for a car whose heading is 0, so that Mat2::from_angle is the
\* identity: the state the step leaves, given the CarStats s it has computed.
Integrate(dt, inp, cfg, st, s, cos_steer) ==
    CHOOSE result \in
      {LET latch == LowSpeedLatch(inp, cfg, integrated)
           local_acceleration == IF latch THEN V2Zero ELSE acc
           velocity == IF latch THEN V2Zero ELSE integrated
           angular_torque == IF latch THEN RZero ELSE torque
           latched_yaw_rate == IF latch THEN RZero ELSE st.yaw_rate
           yaw_rate ==
               IF YawDamped(st, velocity, local_acceleration)
               THEN RZero
               ELSE RAdd(latched_yaw_rate,
                         RMul(RDiv(angular_torque, Inertia(cfg)), dt))
       IN  [st EXCEPT !.local_acceleration = local_acceleration,
                      !.acceleration = local_acceleration,
                      !.velocity = velocity,
                      !.yaw_rate = yaw_rate,
                      !.heading = RAdd(@, RMul(yaw_rate, dt)),
                      !.position = V2Add(@, V2Scale(dt, velocity))] :
         acc \in {<<RDiv(TotalForceX(inp, cfg, st), cfg.mass),
                    RDiv(TotalForceY(cfg, st, s, cos_steer), cfg.mass)>>},
         torque \in {AngularTorque(cfg, s)},
         integrated \in
            {V2Add(st.velocity,
                   V2Scale(dt, <<RDiv(TotalForceX(inp, cfg, st), cfg.mass),
                                 RDiv(TotalForceY(cfg, st, s, cos_steer), cfg.mass)>>))}} :
        TRUE

\* physics_step as a whole: the CarStats of PhysicsStep and the state of
\* Integrate
PhysicsStepWhole(dt, inp, cfg, st, atan2_front, atan2_rear, cos_steer) ==
    CHOOSE result \in
      {IF r.panicked
       THEN r
       ELSE [panicked |-> FALSE,
             state |-> Integrate(dt, inp, cfg, st, r.stats, cos_steer),
             stats |-> r.stats] :
         r \in {PhysicsStep(inp, cfg, st, atan2_front, atan2_rear,
                            st.local_acceleration,
                            [velocity |-> st.velocity, yaw_rate |-> st.yaw_rate])}} :
        TRUE

\* ------------------------------------------------------------------------
\* Specification of the whole tick of step: keys, steering, dynamics
\* ------------------------------------------------------------------------
\* ticks explored by the tick specification
MaxTicks == 2

\* a configuration with small numbers
SmallConfig ==
    [DefaultConfig EXCEPT
        !.gravity = Rat(10, 1),
        !.mass = Rat(2, 1),
        !.half_width = Rat(1, 2),
        !.centre_of_gravity_height = Rat(1, 2),
        !.axle_distance_correction = ROne,
        !.engine_force = Rat(4, 1),
        !.brake_force = Rat(4, 1),
        !.e_brake_force = Rat(2, 1),
        !.air_resistance = RZero,
        !.roll_resistance = ROne,
        !.max_steer = Rat(1, 2),
        !.steer_speed = Rat(2, 1),
        !.speed_steer_correction = Rat(4, 1),
        !.speed_turning_stability = Rat(11, 1)]

TickConfigs ==
    {SmallConfig,
     [SmallConfig EXCEPT !.total_tire_grip_front = RNeg(ROne)],
     [DefaultConfig EXCEPT !.total_tire_grip_front = RNeg(ROne)],
     [SmallConfig EXCEPT !.e_brake_grip_ratio_rear = Rat(-1, 2)]}

\* CarState values handed to the tick: the spawned car, a car rolling
\* straight on, a car creeping through a left turn, a car rolling backwards
TickStates(cfg) ==
    {ZeroState,
     [ZeroState EXCEPT !.position = <<ROne, RZero>>,
                       !.velocity = <<ROne, RZero>>],
     [ZeroState EXCEPT !.position = <<Rat(2, 1), RZero>>,
                       !.velocity = <<Rat(3, 10), RZero>>,
                       !.acceleration = <<RZero, ROne>>,
                       !.local_acceleration = <<RZero, ROne>>,
                       !.yaw_rate = Rat(1, 5),
                       !.steer = Rat(1, 2),
                       !.steer_angle = RMul(cfg.max_steer, Rat(1, 2))],
     [ZeroState EXCEPT !.position = <<Rat(3, 1), RZero>>,
                       !.velocity = <<Rat(-3, 4), RZero>>]}

\* keys held during a frame
KeySets ==
    {{}, {"Up"}, {"Down"}, {"Space"}, {"Left"}, {"Up", "Right"}}

\* Time::delta_seconds of a frame (0 in the first frame)
TickSeconds == {RZero, Rat(1, 4)}

\* results of f32::atan2 and f32::cos to choose from
Atan2Values == {RZero, Rat(1, 5), Rat(-1, 5), ROne, RNeg(ROne)}
CosResults == {ROne, Rat(4, 5)}

\* the rotation by the heading and Vec2::length are exact for this state
Exact(st) ==
    /\ st.heading = RZero
    /\ st.velocity[1] = RZero \/ st.velocity[2] = RZero

InitTick ==
    /\ file = NoFile
    /\ config \in TickConfigs
    /\ state \in TickStates(config)
    /\ inputs = NoInputs
    /\ stats = NoStats
    /\ panicked = FALSE
    /\ NoSchedule
    /\ SetupWorld

\* step, lines 611-647: the keyboard sample, the steering update and
\* physics_step; frame counts the ticks
StepTick ==
    /\ ~panicked
    /\ frame < MaxTicks
    /\ Exact(state)
    /\ \E keys \in KeySets, dt \in TickSeconds :
        \E inp \in {[throttle |-> Pressed("Up" \in keys),
                     brake |-> Pressed("Down" \in keys),
                     e_brake |-> Pressed("Space" \in keys),
                     input_steer |-> RSub(Pressed("Left" \in keys),
                                          Pressed("Right" \in keys)),
                     delta_seconds |-> dt]} :
        \E steered \in {Steer(config, state, inp.input_steer, dt)} :
        \E front_y \in {RAdd(LocalVelocity(steered)[2], YawSpeedFront(config, steered))},
           rear_y \in {RAdd(LocalVelocity(steered)[2], YawSpeedRear(config, steered))} :
        \E atan2_front \in {a \in Atan2Values : Atan2Admits(front_y, a)},
           atan2_rear \in {a \in Atan2Values : Atan2Admits(rear_y, a)},
           cos_steer \in {c \in CosResults : CosAdmits(steered.steer_angle, c)} :
        \E r \in {PhysicsStepWhole(dt, inp, config, steered,
                                   atan2_front, atan2_rear, cos_steer)} :
            /\ inputs' = inp
            /\ panicked' = r.panicked
            /\ state' = r.state
            /\ stats' = IF r.panicked THEN stats ELSE r.stats
    /\ frame' = frame + 1
    /\ UNCHANGED <<file, config, pc, pending, key_c>>
    /\ UNCHANGED <<skidVars, transformVars>>

NextTick == StepTick

SpecTick == InitTick /\ [][NextTick]_vars

\* no key that step reads is held: throttle, brake, handbrake and steer
\* command of the tick are all zero
ZeroControls(inp) ==
    /\ inp.throttle = RZero
    /\ inp.brake = RZero
    /\ inp.e_brake = RZero
    /\ inp.input_steer = RZero

\* C11: a tick that starts from the all-zero vehicle state with zero
\* throttle, brake, handbrake and steer command ends in the all-zero state
\* (heading, position, velocity, acceleration, local acceleration, yaw rate,
\* steer, steer angle), so that any number of such ticks leaves it there.
C11_RestIsIdempotent ==
    [][(state = ZeroState /\ ZeroControls(inputs')) => state' = ZeroState]_vars

\* two ticks of 1/4 s without a key have run on the spawned car
C11_Witness ==
    /\ frame = 2
    /\ stats.computed
    /\ ZeroControls(inputs)
    /\ inputs.delta_seconds = Rat(1, 4)
    /\ state = ZeroState

\* ------------------------------------------------------------------------
\* Order of the systems within a frame
\* ------------------------------------------------------------------------
\* the program points of a frame, in the order main schedules them
StageOrder ==
    <<"Physics", "AfterPhysics", "TransformPropagate", "Skid",
      "UpdatePreviousGlobalTransform", "PostUpdateEnd">>

\* place_tires has run in the current frame
TiresPlaced == pc # "Physics" /\ "place_tires" \notin pending

\* skid has run in the current frame
SkidHasRun == pc \in {"UpdatePreviousGlobalTransform", "PostUpdateEnd"}

C13_LowSpeedLatch ==
    [][(inputs'.throttle = RZero /\ ~panicked'
            /\ LengthBelow(state'.velocity, Rat(1, 2))) =>
        /\ state'.velocity = V2Zero
        /\ state'.acceleration = V2Zero
        /\ state'.local_acceleration = V2Zero
        /\ state'.yaw_rate = RZero
        /\ state'.heading = state.heading
        /\ state'.position = state.position]_vars

\* the car that crept through a left turn (yaw rate 1/5) has been stopped by
\* the latch in a tick of 1/4 s in which lateral forces acted on it
C13_Witness ==
    /\ frame = 1
    /\ stats.computed
    /\ inputs.throttle = RZero
    /\ inputs.delta_seconds = Rat(1, 4)
    /\ stats.front_left_friction # RZero
    /\ state.position = <<Rat(2, 1), RZero>>
    /\ state.velocity = V2Zero
    /\ state.yaw_rate = RZero

\* ------------------------------------------------------------------------
\* The assertion of clamp
\* ------------------------------------------------------------------------
\* C14: for every configuration that satisfies the positivity invariants
\* (mass, inertia scale, wheel radius, axle-distance sums) and every control
\* input with throttle, brake and handbrake in [0, 1] the dynamics step never
\* fails: assert!(min <= max) holds in each of the four clamp calls.
C14_ClampAssertionHolds ==
    ValidConfig(config) => ~panicked

\* ------------------------------------------------------------------------
\* Current and previous position in the skid update
\* ------------------------------------------------------------------------
\* C15: on every tick the skid update of a wheel works on the wheel's
\* propagated position of this tick and on the stored previous position,
\* which is still the propagated position of the tick before: it is what the
\* wheel's position was when this tick's step started, nothing overwrites it
\* before the skid update has run, and it is overwritten with this tick's
\* position right after.  The vertices a slipping wheel gets are those of the
\* displacement position(t) - position(t-1).
C15_SkidReadsPreviousTick ==
    [][/\ pc = "Physics" =>
            \A t \in Tires :
                previous_global_transform[t]
                    = Propagated(car_transform, tire_transform[t])
       /\ pc # "UpdatePreviousGlobalTransform" =>
            previous_global_transform' = previous_global_transform
       /\ pc = "UpdatePreviousGlobalTransform" =>
            previous_global_transform' = global_transform
       /\ pc = "Skid" =>
            \A t \in Tires :
                /\ global_transform[t] = Propagated(car_transform, tire_transform[t])
                /\ is_skidding[t] =>
                    LET trail == meshes'[skid_mesh'[t]]
                        offset == VSub(global_transform[t].translation,
                                       previous_global_transform[t].translation)
                        sideways ==
                            VScale(RMul(Rat(1, 2), global_transform[t].scale_y),
                                   NormalizeOrZero(<<RNeg(offset[2]), offset[1], RZero>>))
                    IN  /\ offset = VSub(car_transform,
                                         VSub(previous_global_transform[t].translation,
                                              tire_transform[t].translation))
                        /\ SubSeq(trail, Len(trail) - 1, Len(trail))
                              = <<VSub(global_transform[t].translation, sideways),
                                  VAdd(global_transform[t].translation, sideways)>>]_vars

\* in the second frame or later the skid update has given a slipping wheel
\* that moved a vertex pair of non-zero width, the previous position not yet
\* overwritten
C15_Witness ==
    /\ pc = "UpdatePreviousGlobalTransform"
    /\ frame >= 2
    /\ \E t \in Tires :
        /\ is_skidding[t]
        /\ Open(t)
        /\ global_transform[t].translation # previous_global_transform[t].translation
        /\ LET trail == meshes[skid_mesh[t]]
           IN  /\ Len(trail) >= 4
               /\ trail[Len(trail) - 1] # trail[Len(trail)]

====
